---- MODULE Spec2Model ----
(***************************************************************************)
(* A model of pghstore/_native.py: the hstore serializer (dump, dumps),    *)
(* the lazy parser (parse, PAIR_RE), load, and the escaper (escape,        *)
(* unescape), as the module behaves under a Python 3 interpreter.          *)
(*                                                                         *)
(* A Python str is a sequence of one-character strings.  A Python value is *)
(* a record [t, v]: t is the type ("str", "None", "int") and v the text of *)
(* the value.  Offsets are Python's: 0-based, the character at offset i of *)
(* s is s[i + 1].                                                          *)
(***************************************************************************)
EXTENDS Integers, Sequences, FiniteSets, TLC

VARIABLES
    callableABC,  \* does the interpreter's `collections` still export Callable
    pc,           \* where the current call is: idle, dump, parse, returned, raised
    call,         \* the outermost call: its function and arguments
    sink,         \* the content of the writable file object handed to dump
    items,        \* dump: the items the iterator has not produced yet
    first,        \* dump: the local `first`
    keymap,       \* dump: the local key_map after lines 154-160
    string,       \* parse: the text being scanned
    offset,       \* parse: the local `offset`
    yielded,      \* parse: the pairs the consumer has received so far
    reads,        \* load: how many times file.read() has been called
    result,       \* the value returned by the call (None until it returns)
    err           \* the exception the call raised ("none" while none)

vars == <<callableABC, pc, call, sink, items, first, keymap, string, offset,
          yielded, reads, result, err>>

-----------------------------------------------------------------------------
(* Characters and Python values *)

BS == "\\"
QT == "\""
NL == "\n"
SP == " "
COMMA == ","

\* the other whitespace characters: U+0009, U+000B, U+000C, U+000D,
\* U+001C..U+001F, U+0085, U+00A0 and U+1680
TAB == "\t"
VT == ""
FF == "\f"
CR == "\r"
FS == ""
GS == ""
RS == ""
US == ""
NEL == ""
NBSP == " "
OGHAM == " "

PyNone == [t |-> "None", v |-> <<>>]
PyStr(s) == [t |-> "str", v |-> s]
PyInt(s) == [t |-> "int", v |-> s]

\* Python truthiness of a str-or-None value: `if kq:`
Truthy(x) == x.t # "None" /\ x.v # <<>>

\* s[a:b] for 0 <= a <= b <= len(s)
Slice(s, a, b) == SubSeq(s, a + 1, b)

\* F applied to the value of v, with v evaluated once
With(v, F(_)) == CHOOSE r \in {F(x) : x \in {v}} : TRUE

\* A text is a sequence of characters.  A character that a TLA+ string
\* literal can hold stands for itself; the spaces from U+2000 on cannot be
\* written in a literal, and each is denoted by the name of its code point.
EM_SPACE == "U+2003"
GeneralSpaces == {"U+2000", "U+2001", "U+2002", EM_SPACE, "U+2004", "U+2005",
                  "U+2006", "U+2007", "U+2008", "U+2009", "U+200A"}
Separators == {"U+2028", "U+2029"}
OtherSpaces == {"U+202F", "U+205F", "U+3000"}

\* the 29 characters that \s of the re module matches in a str pattern,
\* which are the characters str.strip() removes and the ones \S rejects:
\* those for which str.isspace() holds
Whitespace == {TAB, NL, VT, FF, CR, FS, GS, RS, US, SP, NEL, NBSP, OGHAM}
              \cup GeneralSpaces \cup Separators \cup OtherSpaces

IsSpace(c) == c \in Whitespace

\* s.strip() is non-empty: s holds a character that is not whitespace
StripNonEmpty(s) == \E i \in 1..Len(s) : ~IsSpace(s[i])

-----------------------------------------------------------------------------
(* The escaper *)

\* str.replace(old, new) for a one-character old
RECURSIVE Replace(_, _, _)
Replace(s, old, new) ==
    IF s = <<>> THEN <<>>
    ELSE (IF Head(s) = old THEN new ELSE <<Head(s)>>) \o Replace(Tail(s), old, new)

\* a plausible slip: the two replacements in the other order
escapeQuotesFirst(s) == Replace(Replace(s, QT, <<BS, QT>>), BS, <<BS, BS>>)

\* line 288: replace every backslash by two, then every quote by backslash
\* and quote
escape(s) == Replace(Replace(s, BS, <<BS, BS>>), QT, <<BS, QT>>)

\* ESCAPE_RE.sub(r'\1', s) with ESCAPE_RE = \\(.) : leftmost non-overlapping
\* matches; `.` matches any character but a newline
RECURSIVE unescape(_)
unescape(s) ==
    IF s = <<>> THEN <<>>
    ELSE IF Head(s) = BS /\ Len(s) >= 2 /\ s[2] # NL
         THEN <<s[2]>> \o unescape(SubSeq(s, 3, Len(s)))
         ELSE <<Head(s)>> \o unescape(Tail(s))

-----------------------------------------------------------------------------
\* PAIR_RE (lines 219-221), matched as the backtracking re engine matches it,
\* under re.IGNORECASE.  The pattern is, in order:
\*   the key: a quoted token (group kq is the text between the quotes), or
\*            else a lazy run of non-whitespace (group kb);
\*   optional whitespace, the separator =>, optional whitespace;
\*   the value: a quoted token (group vq), or else the word NULL (group vn),
\*            or else a greedy run of non-commas (group vb);
\*   a comma, or else the end of the text.
\* A failed match is the offset -1.

\* The inside of a quoted token and its closing quote, from offset i (the
\* offset after the opening quote): the offset after the closing quote.  The
\* inside is a greedy star over two alternatives, a character that is neither
\* a backslash nor a quote, or a backslash and any character but a newline.
\* The alternatives start with different characters and neither matches an
\* unescaped quote, so the star can only stop at the first unescaped quote.
RECURSIVE QuotedScan(_, _)
QuotedScan(s, i) ==
    IF i >= Len(s) THEN -1
    ELSE IF s[i + 1] = QT THEN i + 1
    ELSE IF s[i + 1] = BS
         THEN IF i + 1 < Len(s) /\ s[i + 2] # NL THEN QuotedScan(s, i + 2) ELSE -1
         ELSE QuotedScan(s, i + 1)

\* a quoted token starting at offset p
QuotedEnd(s, p) ==
    IF p < Len(s) /\ s[p + 1] = QT THEN QuotedScan(s, p + 1) ELSE -1

\* $ without re.MULTILINE: at the end, or before a final newline
AtDollar(s, i) == i = Len(s) \/ (i = Len(s) - 1 /\ s[Len(s)] = NL)

\* (?:,|$) at offset i: the offset after it
TermEnd(s, i) ==
    IF i < 0 THEN -1
    ELSE IF i < Len(s) /\ s[i + 1] = COMMA THEN i + 1
    ELSE IF AtDollar(s, i) THEN i
    ELSE -1

\* NULL under re.IGNORECASE at offset q
NullAt(s, q) ==
    /\ q + 4 <= Len(s)
    /\ s[q + 1] \in {"N", "n"}
    /\ s[q + 2] \in {"U", "u"}
    /\ s[q + 3] \in {"L", "l"}
    /\ s[q + 4] \in {"L", "l"}

\* [^,]+ (greedy) from offset q: the offset where the run of non-commas ends
RECURSIVE RunEnd(_, _)
RunEnd(s, q) == IF q < Len(s) /\ s[q + 1] # COMMA THEN RunEnd(s, q + 1) ELSE q

NoValue == [end |-> -1, vq |-> PyNone, vn |-> PyNone, vb |-> PyNone]

\* the value alternation followed by (?:,|$), tried at offset q in the
\* pattern's order: quoted, NULL, bare
ValueAt(s, q) ==
    LET e == QuotedEnd(s, q)
        r == RunEnd(s, q)
    IN  IF TermEnd(s, e) # -1
        THEN [NoValue EXCEPT !.end = TermEnd(s, e), !.vq = PyStr(Slice(s, q + 1, e - 1))]
        ELSE IF NullAt(s, q) /\ TermEnd(s, q + 4) # -1
        THEN [NoValue EXCEPT !.end = TermEnd(s, q + 4), !.vn = PyStr(Slice(s, q, q + 4))]
        ELSE IF r > q
        THEN [NoValue EXCEPT !.end = TermEnd(s, r), !.vb = PyStr(Slice(s, q, r))]
        ELSE NoValue

\* \s* (greedy) from offset i: the offset where the run of whitespace ends
RECURSIVE SpaceEnd(_, _)
SpaceEnd(s, i) == IF i < Len(s) /\ IsSpace(s[i + 1]) THEN SpaceEnd(s, i + 1) ELSE i

\* the second \s* gives whitespace back: the value is tried at offset q, the
\* end of the longest run of whitespace, then at each earlier offset down to
\* lo, the offset after the separator
RECURSIVE ValueBack(_, _, _)
ValueBack(s, q, lo) ==
    With(ValueAt(s, q),
         LAMBDA v : IF v.end # -1 \/ q <= lo THEN v ELSE ValueBack(s, q - 1, lo))

\* \s*=>\s*value(?:,|$) from offset k, the end of the key.  The first \s* is
\* followed by the = sign, so only its longest run can match.
RestAt(s, k) ==
    With(SpaceEnd(s, k),
         LAMBDA k1 : IF k1 + 2 <= Len(s) /\ s[k1 + 1] = "=" /\ s[k1 + 2] = ">"
                     THEN ValueBack(s, SpaceEnd(s, k1 + 2), k1 + 2)
                     ELSE NoValue)

NoMatch == [start |-> -1, end |-> -1, kq |-> PyNone, kb |-> PyNone,
            vq |-> PyNone, vn |-> PyNone, vb |-> PyNone]

\* a match from offset p with the key groups kq, kb and the rest v
Matched(p, kq, kb, v) ==
    [start |-> p, end |-> v.end, kq |-> kq, kb |-> kb, vq |-> v.vq, vn |-> v.vn, vb |-> v.vb]

\* the bare key, a lazy run of one or more non-whitespace characters from
\* offset p: the shortest run [p, k) after which the rest matches
RECURSIVE BareKey(_, _, _)
BareKey(s, p, k) ==
    IF k > Len(s) \/ IsSpace(s[k]) THEN NoMatch
    ELSE With(RestAt(s, k),
              LAMBDA v : IF v.end # -1 THEN Matched(p, PyNone, PyStr(Slice(s, p, k)), v)
                         ELSE BareKey(s, p, k + 1))

\* PAIR_RE.match at offset p: the quoted key first; when the rest fails after
\* it, the bare key
MatchAt(s, p) ==
    With(QuotedEnd(s, p),
         LAMBDA e :
            IF e = -1 THEN BareKey(s, p, p + 1)
            ELSE With(RestAt(s, e),
                      LAMBDA v : IF v.end # -1
                                 THEN Matched(p, PyStr(Slice(s, p + 1, e - 1)), PyNone, v)
                                 ELSE BareKey(s, p, p + 1)))

\* the next match PAIR_RE.finditer(string) produces when its scan stands at
\* offset pos: the leftmost offset at which the pattern matches
RECURSIVE PAIR_RE(_, _)
PAIR_RE(s, pos) ==
    IF pos >= Len(s) THEN NoMatch
    ELSE With(MatchAt(s, pos),
              LAMBDA m : IF m.end # -1 THEN m ELSE PAIR_RE(s, pos + 1))

-----------------------------------------------------------------------------
(* Exceptions *)

NoError == [type |-> "none", msg |-> "", pos |-> -1]
TypeError(msg) == [type |-> "TypeError", msg |-> msg, pos |-> -1]
AttributeError(msg) == [type |-> "AttributeError", msg |-> msg, pos |-> -1]
\* line 240, line 259: malformed hstore value: position %d
ValueError(position) == [type |-> "ValueError", msg |-> "malformed hstore value", pos |-> position]

-----------------------------------------------------------------------------
(* parse: one resumption of the generator, lines 237-259 *)

\* The generator resumed with its scan at `off` (the local offset, which is
\* also where finditer continues: matches are never empty).  It yields a
\* pair, raises, or returns (StopIteration).  Under Python 3 a str has no
\* decode method, so lines 247 and 255 raise AttributeError for every key
\* or value that is a str.
ParseResume(kind, item, e, o) == [kind |-> kind, item |-> item, err |-> e, offset |-> o]

\* lines 241-245: the key of a match
MatchKey(match) == IF Truthy(match.kq) THEN PyStr(unescape(match.kq.v)) ELSE match.kb

\* lines 248-253: the value of a match
MatchValue(match) ==
    IF Truthy(match.vq) THEN PyStr(unescape(match.vq.v))
    ELSE IF Truthy(match.vn) THEN PyNone ELSE match.vb

ParseStep(s, off) ==
    With(PAIR_RE(s, off),
         LAMBDA match :
            IF match.end = -1
            THEN IF off > Len(s) \/ StripNonEmpty(Slice(s, off, Len(s)))
                 THEN ParseResume("raise", <<>>, ValueError(off), off)
                 ELSE ParseResume("return", <<>>, NoError, off)
            ELSE IF off > match.start \/ StripNonEmpty(Slice(s, off, match.start))
            THEN ParseResume("raise", <<>>, ValueError(off), off)
            ELSE IF MatchKey(match).t = "str"
            THEN ParseResume("raise", <<>>, AttributeError("str has no decode"), off)
            ELSE IF MatchValue(match).t = "str"
            THEN ParseResume("raise", <<>>, AttributeError("str has no decode"), off)
            ELSE ParseResume("yield", <<MatchKey(match), MatchValue(match)>>, NoError,
                             match.end))

\* list(parse(s)) from offset off: the pairs yielded until the generator
\* returns or raises, and the exception (NoError when it returned)
RECURSIVE ParseAll(_, _, _)
ParseAll(s, off, acc) ==
    With(ParseStep(s, off),
         LAMBDA r : IF r.kind = "yield" THEN ParseAll(s, r.offset, Append(acc, r.item))
                    ELSE [pairs |-> acc, err |-> r.err])

-----------------------------------------------------------------------------
(* dump: the body of the loop, lines 166-191 *)

\* str(x), the mapping function the model passes as a callable key_map or
\* value_map
MapStr(x) == PyStr(x.v)

\* One iteration for the item <<key, value>>: what is written to the file,
\* or the exception.  keymap is the local key_map ("raise" for the default
\* of lines 155-156), valuemap the argument value_map.
DumpItem(item, isFirst, km, vm) ==
    LET key0 == item[1]
        value0 == item[2]
        key == IF key0.t # "str" THEN MapStr(key0) ELSE key0
        value == IF value0.t = "None" THEN PyNone
                 ELSE IF value0.t # "str" THEN MapStr(value0) ELSE value0
        Out(e, w) == [err |-> e, written |-> w]
    IN  IF key0.t # "str" /\ km = "raise"
        THEN Out(TypeError("key is not a string"), <<>>)
        ELSE IF value0.t \notin {"None", "str"} /\ vm = "None"
        THEN Out(TypeError("value is not a string"), <<>>)
        ELSE IF value0.t \notin {"None", "str"} /\ vm # "callable"
        THEN Out(TypeError("object is not callable"), <<>>)
        ELSE Out(NoError,
                 (IF isFirst THEN <<QT>> ELSE <<COMMA, QT>>)
                 \o escape(key.v)
                 \o (IF value.t = "None"
                     THEN <<QT, "=", ">", "N", "U", "L", "L">>
                     ELSE <<QT, "=", ">", QT>> \o escape(value.v) \o <<QT>>))

-----------------------------------------------------------------------------
(* Bounds and the inputs drawn within them *)

MaxLen == 5        \* longest str handed to escape and unescape
MaxPairs == 2      \* most pairs in an object handed to dump and dumps
MaxTextPairs == 2  \* most pairs in a text handed to parse and load

RECURSIVE SeqsUpTo(_, _)
SeqsUpTo(S, n) ==
    IF n = 0 THEN {<<>>}
    ELSE LET shorter == SeqsUpTo(S, n - 1)
         IN  shorter \cup {Append(q, x) : q \in {r \in shorter : Len(r) = n - 1}, x \in S}

\* strings for the escaper: a letter, a quote, a backslash, a newline
EscChars == {"a", QT, BS, NL}
EscStrings == SeqsUpTo(EscChars, MaxLen)

\* keys and values of the objects handed to dump: text (empty, plain,
\* needing escapes), a non-text key and value, and None as a value
DumpKeys == {PyStr(<<>>), PyStr(<<"a">>), PyStr(<<QT, BS>>), PyInt(<<"1">>)}
DumpValues == {PyStr(<<>>), PyStr(<<"a">>), PyStr(<<BS, QT>>), PyNone, PyInt(<<"1">>)}
DumpItems == SeqsUpTo(DumpKeys \X DumpValues, MaxPairs)

\* the objects handed to dump: a list of pairs, a dict (its items() are the
\* pairs, in insertion order, with distinct keys), or an object that is
\* neither a mapping nor iterable (an int)
DistinctKeys(q) == \A i, j \in 1..Len(q) : q[i][1] = q[j][1] => i = j
DumpObjects ==
    {[kind |-> "list", items |-> q] : q \in DumpItems}
    \cup {[kind |-> "dict", items |-> q] : q \in {x \in DumpItems : DistinctKeys(x)}}
    \cup {[kind |-> "other", items |-> <<>>]}

\* text-only documents for the round trip
Texts == {<<>>, <<"a">>, <<QT>>, <<BS>>, <<COMMA>>, <<"=", ">">>}
TextKeys == {PyStr(x) : x \in Texts}
TextValues == {PyStr(x) : x \in Texts} \cup {PyNone}
TextObjects == {[kind |-> "list", items |-> q] : q \in SeqsUpTo(TextKeys \X TextValues, MaxPairs)}

\* what can be passed as key_map and as value_map: None, a callable (str),
\* something that is not callable (an int)
MapArgs == {"None", "callable", "other"}

\* file objects for dump: with a write method and some content already
\* written, or without a write method
DumpFiles == {[write |-> TRUE, content |-> <<>>],
              [write |-> TRUE, content |-> <<"x">>],
              [write |-> FALSE, content |-> <<>>]}

\* hstore texts for parse, built from tokens: each pair is a key token, the
\* separator and a value token; pairs are joined by commas; `ws` says where a
\* whitespace character is inserted (1 before the separator, 2 after it,
\* 3 before the comma, 4 after the comma) and which one; `tail` is appended
\* to the last pair.
KeyTokens == {<<"a">>, <<QT, "a", QT>>, <<QT, QT>>}
ValueTokens == {<<"a">>, <<QT, "a", QT>>, <<QT, QT>>, <<QT, BS, QT, QT>>,
                <<"N", "U", "L", "L">>, <<"n", "u", "L", "l">>,
                <<QT, "N", "U", "L", "L", QT>>}
PairTokens == [k : KeyTokens, v : ValueTokens]
SpaceChars == {SP, TAB, NL, NBSP, EM_SPACE}
NoSpacing == [at |-> {}, ch |-> SP]
Spacings == {NoSpacing}
            \cup [at : {{1}, {2}, {3}, {4}, {1, 2, 3, 4}}, ch : SpaceChars]
Garbage == <<SP, "g", SP, "a", "=", ">", "a">>
Tails == {<<>>, <<COMMA>>, <<NL>>, <<TAB>>, <<SP, "g">>, <<TAB, "g">>, Garbage,
          <<COMMA, "g">>, <<COMMA, "g", SP, "a", "=", ">", "a">>}
Shapes == [pairs : SeqsUpTo(PairTokens, MaxTextPairs), ws : Spacings, tail : Tails]

Sp(ws, i) == IF i \in ws.at THEN <<ws.ch>> ELSE <<>>

PairText(tok, ws) == tok.k \o Sp(ws, 1) \o <<"=", ">">> \o Sp(ws, 2) \o tok.v

RECURSIVE JoinPairs(_, _)
JoinPairs(pairs, ws) ==
    IF pairs = <<>> THEN <<>>
    ELSE IF Len(pairs) = 1 THEN PairText(pairs[1], ws)
    ELSE PairText(pairs[1], ws) \o Sp(ws, 3) \o <<COMMA>> \o Sp(ws, 4)
         \o JoinPairs(Tail(pairs), ws)

TextOf(shape) == JoinPairs(shape.pairs, shape.ws) \o shape.tail

\* readable sources for load: a file whose read() returns a text, or an
\* object without a read method
LoadFiles == {[read |-> TRUE, content |-> TextOf(sh)] : sh \in {x \in Shapes : x.ws = NoSpacing}}
             \cup {[read |-> FALSE, content |-> <<>>]}

-----------------------------------------------------------------------------
(* The state after import, and the calls *)

Top == [fn |-> "none"]

\* collections.Callable is there up to Python 3.9 and gone from 3.10 on
Init ==
    /\ callableABC \in BOOLEAN
    /\ pc = "idle"
    /\ call = Top
    /\ sink = <<>>
    /\ items = <<>>
    /\ first = TRUE
    /\ keymap = "None"
    /\ string = <<>>
    /\ offset = 0
    /\ yielded = <<>>
    /\ reads = 0
    /\ result = PyNone
    /\ err = NoError

\* the exception raised by lines 146-164 of dump, before the loop; NoError
\* when the loop is entered.  Line 146 is the first to evaluate
\* collections.Callable.  A Python 3 dict has no iteritems and has items
\* (line 149); a list has neither and has __iter__ (line 151).
DumpEntryError(obj, file, key_map, value_map) ==
    IF ~callableABC THEN AttributeError("collections has no attribute Callable")
    ELSE IF obj.kind = "other" THEN TypeError("expected a mapping object")
    ELSE IF key_map = "other" THEN TypeError("key_map must be callable")
    ELSE IF key_map = "callable" /\ value_map = "other"
    THEN TypeError("value_map must be callable")
    ELSE IF ~file.write THEN TypeError("file must be writable")
    ELSE NoError

\* dump(obj, file, key_map, value_map) up to the loop, lines 146-165
DumpEnter(fn, obj, file, key_map, value_map, return_unicode) ==
    LET e == DumpEntryError(obj, file, key_map, value_map)
    IN  /\ pc = "idle"
        /\ call' = [fn |-> fn, obj |-> obj, file |-> file, key_map |-> key_map,
                    value_map |-> value_map, return_unicode |-> return_unicode]
        /\ sink' = file.content
        /\ err' = e
        /\ pc' = IF e = NoError THEN "dump" ELSE "raised"
        /\ items' = IF e = NoError THEN obj.items ELSE <<>>
        /\ first' = TRUE
        /\ keymap' = IF key_map = "None" THEN "raise" ELSE key_map
        /\ UNCHANGED <<callableABC, string, offset, yielded, reads, result>>

dump(obj, file, key_map, value_map) ==
    DumpEnter("dump", obj, file, key_map, value_map, FALSE)

\* dumps, lines 86-87: a fresh StringIO is the file
dumps(obj, key_map, value_map, return_unicode) ==
    DumpEnter("dumps", obj, [write |-> TRUE, content |-> <<>>], key_map, value_map,
              return_unicode)

\* one iteration of the loop of dump, lines 166-191
dump_loop ==
    /\ pc = "dump"
    /\ items # <<>>
    /\ \E r \in {DumpItem(Head(items), first, keymap, call.value_map)} :
        /\ sink' = sink \o r.written
        /\ err' = r.err
        /\ pc' = IF r.err = NoError THEN "dump" ELSE "raised"
        /\ items' = Tail(items)
        /\ first' = IF r.err = NoError THEN FALSE ELSE first
        /\ UNCHANGED <<callableABC, call, keymap, string, offset, yielded, reads, result>>

\* the iterator is exhausted: dump returns None; dumps goes on with lines
\* 88-91, where result.decode raises under Python 3 (a str has no decode)
dump_return ==
    /\ pc = "dump"
    /\ items = <<>>
    /\ pc' = IF call.fn = "dumps" /\ call.return_unicode THEN "raised" ELSE "returned"
    /\ err' = IF call.fn = "dumps" /\ call.return_unicode
              THEN AttributeError("str has no decode") ELSE NoError
    /\ result' = IF call.fn = "dumps" /\ ~call.return_unicode THEN PyStr(sink) ELSE PyNone
    /\ UNCHANGED <<callableABC, call, sink, items, first, keymap, string, offset,
                   yielded, reads>>

\* parse(string): calling the generator function runs none of its body
ParseEnter(s, shape, from) ==
    /\ call' = [fn |-> "parse", string |-> s, shape |-> shape, from |-> from]
    /\ pc' = "parse"
    /\ string' = s
    /\ offset' = 0
    /\ yielded' = <<>>
    /\ err' = NoError
    /\ result' = PyNone
    /\ UNCHANGED <<callableABC, sink, items, first, keymap, reads>>

parse(shape) ==
    /\ pc = "idle"
    /\ ParseEnter(TextOf(shape), shape, Top)

\* the consumer asks the generator for its next pair
parse_next ==
    /\ pc = "parse"
    /\ \E r \in {ParseStep(string, offset)} :
        /\ yielded' = IF r.kind = "yield" THEN Append(yielded, r.item) ELSE yielded
        /\ offset' = r.offset
        /\ err' = r.err
        /\ pc' = CASE r.kind = "yield" -> "parse"
                   [] r.kind = "raise" -> "raised"
                   [] OTHER -> "returned"
        /\ UNCHANGED <<callableABC, call, sink, items, first, keymap, string, reads, result>>

\* the round trip: the str dumps returned is handed to parse
parse_dumped ==
    /\ pc = "returned"
    /\ call.fn = "dumps"
    /\ ParseEnter(result.v, [pairs |-> <<>>, ws |-> NoSpacing, tail |-> result.v], call)

\* load(file), lines 199-203: read() is called once and load is called
\* again on the str it returned, which has no read method
load(file) ==
    LET e == IF ~callableABC THEN AttributeError("collections has no attribute Callable")
             ELSE TypeError("file must be readable")
    IN  /\ pc = "idle"
        /\ call' = [fn |-> "load", file |-> file]
        /\ reads' = IF callableABC /\ file.read THEN reads + 1 ELSE reads
        /\ err' = e
        /\ pc' = "raised"
        /\ UNCHANGED <<callableABC, sink, items, first, keymap, string, offset, yielded,
                       result>>

call_escape(s) ==
    /\ pc = "idle"
    /\ call' = [fn |-> "escape", s |-> s, from |-> Top]
    /\ result' = PyStr(escape(s))
    /\ pc' = "returned"
    /\ UNCHANGED <<callableABC, sink, items, first, keymap, string, offset, yielded,
                   reads, err>>

call_unescape(s) ==
    /\ pc = "idle"
    /\ call' = [fn |-> "unescape", s |-> s, from |-> Top]
    /\ result' = PyStr(unescape(s))
    /\ pc' = "returned"
    /\ UNCHANGED <<callableABC, sink, items, first, keymap, string, offset, yielded,
                   reads, err>>

\* unescape applied to what escape returned
unescape_escaped ==
    /\ pc = "returned"
    /\ call.fn = "escape"
    /\ call' = [fn |-> "unescape", s |-> result.v, from |-> call]
    /\ result' = PyStr(unescape(result.v))
    /\ UNCHANGED <<callableABC, pc, sink, items, first, keymap, string, offset, yielded,
                   reads, err>>

-----------------------------------------------------------------------------
(* Specifications *)

\* Every call starts from the idle state; the guard stands in front of the
\* choice of arguments so that it is decided once.
NextEscaper ==
    \/ pc = "idle" /\ \E s \in EscStrings : call_escape(s)
    \/ pc = "idle" /\ \E s \in EscStrings : call_unescape(s)
    \/ unescape_escaped

SpecEscaper == Init /\ [][NextEscaper]_vars

NextDump ==
    \/ pc = "idle" /\ \E obj \in DumpObjects, file \in DumpFiles, km \in MapArgs,
                         vm \in MapArgs : dump(obj, file, km, vm)
    \/ pc = "idle" /\ \E obj \in DumpObjects, km \in MapArgs, vm \in MapArgs,
                         ru \in BOOLEAN : dumps(obj, km, vm, ru)
    \/ dump_loop
    \/ dump_return

SpecDump == Init /\ [][NextDump]_vars

NextParse ==
    \/ pc = "idle" /\ \E shape \in Shapes : parse(shape)
    \/ parse_next

SpecParse == Init /\ [][NextParse]_vars

NextRoundTrip ==
    \/ pc = "idle" /\ \E obj \in TextObjects : dumps(obj, "None", "None", FALSE)
    \/ dump_loop
    \/ dump_return
    \/ parse_dumped
    \/ parse_next

SpecRoundTrip == Init /\ [][NextRoundTrip]_vars

NextLoad == pc = "idle" /\ \E file \in LoadFiles : load(file)

SpecLoad == Init /\ [][NextLoad]_vars

Next == NextEscaper \/ NextDump \/ NextParse \/ NextRoundTrip \/ NextLoad

Spec == Init /\ [][Next]_vars

-----------------------------------------------------------------------------
(* The claims *)

Finished == pc \in {"returned", "raised"}

\* a token written between double quotes, and the text between them
Quoted(tok) == Len(tok) >= 2 /\ tok[1] = QT /\ tok[Len(tok)] = QT
Inner(tok) == SubSeq(tok, 2, Len(tok) - 1)

\* the unquoted word NULL in any letter case
NullToken(tok) == Len(tok) = 4 /\ NullAt(tok, 0)

\* s with every backslash doubled and every quote prefixed by a backslash
RECURSIVE EscapedCharwise(_)
EscapedCharwise(s) ==
    IF s = <<>> THEN <<>>
    ELSE (IF Head(s) = BS THEN <<BS, BS>>
          ELSE IF Head(s) = QT THEN <<BS, QT>> ELSE <<Head(s)>>)
         \o EscapedCharwise(Tail(s))

\* C1: round trip.  When parse has been run to its end on the str that
\* dumps returned for a text-only document D, the pairs it yielded are
\* exactly D and it ended without an exception.
C1_RoundTrip ==
    (call.fn = "parse" /\ call.from # Top /\ Finished)
        => (pc = "returned" /\ yielded = call.from.obj.items)

\* C2: unescape(escape(s)) = s for every string s, and escape(s) is s with
\* every backslash doubled and every double quote prefixed by a backslash.
C2_EscapeRoundTrip ==
    /\ call.fn = "escape" => result.v = EscapedCharwise(call.s)
    /\ (call.fn = "unescape" /\ call.from # Top) => result.v = call.from.s

\* C2 witness: unescape has been applied to escape(s) for an s that holds a
\* run of backslashes, a backslash right before a quote and a backslash
\* right before a newline.
C2_Witness ==
    /\ call.fn = "unescape"
    /\ call.from # Top
    /\ \E i \in 1..(Len(call.from.s) - 1) : call.from.s[i] = BS /\ call.from.s[i + 1] = BS
    /\ \E i \in 1..(Len(call.from.s) - 1) : call.from.s[i] = BS /\ call.from.s[i + 1] = QT
    /\ \E i \in 1..(Len(call.from.s) - 1) : call.from.s[i] = BS /\ call.from.s[i + 1] = NL

\* C3: in a text of pairs joined by commas, the i-th yielded pair has a key
\* that is not absent, the unescaped inner text as its key when the key token
\* is quoted, the null sentinel as its value exactly when the value token is
\* the unquoted word NULL, and the unescaped inner text as its value when the
\* value token is quoted.
C3_NullOnlyForBareNULL ==
    (call.fn = "parse" /\ call.from = Top /\ call.shape.ws = NoSpacing /\ call.shape.tail = <<>>)
        => \A i \in 1..Len(yielded) :
              LET tok == call.shape.pairs[i]
              IN  /\ yielded[i][1] # PyNone
                  /\ Quoted(tok.k) => yielded[i][1] = PyStr(unescape(Inner(tok.k)))
                  /\ (yielded[i][2] = PyNone) <=> NullToken(tok.v)
                  /\ Quoted(tok.v) => yielded[i][2] = PyStr(unescape(Inner(tok.v)))

\* the tails that follow a pair by whitespace and further content, without
\* a comma
GarbageTails == {<<SP, "g">>, <<TAB, "g">>, Garbage}

\* C4: when one valid pair is followed, without a comma, by whitespace and
\* further non-whitespace content, parse ends with the malformed-input error
\* and reports the offset right after the pair.
C4_GarbageIsMalformed ==
    (/\ call.fn = "parse" /\ call.from = Top /\ Finished
     /\ Len(call.shape.pairs) = 1 /\ call.shape.ws = NoSpacing
     /\ call.shape.tail \in GarbageTails)
        => (/\ pc = "raised"
            /\ err.type = "ValueError"
            /\ err.pos = Len(PairText(call.shape.pairs[1], NoSpacing)))

\* C5: for a well-formed text, the pairs parse yields with whitespace
\* inserted around the separators and the commas are the pairs it yields
\* for the same text without that whitespace.
C5_WhitespaceInsignificant ==
    (call.fn = "parse" /\ call.from = Top /\ Finished /\ call.shape.tail = <<>>)
        => yielded = ParseAll(TextOf([call.shape EXCEPT !.ws = NoSpacing]), 0, <<>>).pairs

\* the token of one pair and the output for a list of pairs, as the
\* documentation of dumps states them
TokenOf(pair) ==
    <<QT>> \o escape(pair[1].v)
    \o (IF pair[2] = PyNone THEN <<QT, "=", ">", "N", "U", "L", "L">>
        ELSE <<QT, "=", ">", QT>> \o escape(pair[2].v) \o <<QT>>)

RECURSIVE JoinTokens(_)
JoinTokens(obj) ==
    IF obj = <<>> THEN <<>>
    ELSE IF Len(obj) = 1 THEN TokenOf(obj[1])
    ELSE TokenOf(obj[1]) \o <<COMMA>> \o JoinTokens(Tail(obj))

TextOnly(obj) ==
    \A i \in 1..Len(obj) : obj[i][1].t = "str" /\ obj[i][2].t \in {"str", "None"}

\* C6: for a list (or dict) of pairs with text keys and text-or-null values, dump
\* returns having appended to the sink exactly the tokens of the pairs joined
\* by single commas (nothing for no pairs), and dumps returns that text.
C6_OutputFormat ==
    (/\ call.fn \in {"dump", "dumps"}
     /\ call.obj.kind # "other" /\ TextOnly(call.obj.items)
     /\ call.key_map # "other" /\ call.value_map # "other"
     /\ call.file.write /\ ~call.return_unicode)
        => (/\ pc # "raised"
            /\ pc = "returned" => sink = call.file.content \o JoinTokens(call.obj.items)
            /\ (pc = "returned" /\ call.fn = "dumps") => result = PyStr(JoinTokens(call.obj.items)))

\* C6, on the interpreters that still have collections.Callable: the same
\* statement holds there
C6_OutputFormatWhereCallableExists == callableABC => C6_OutputFormat

\* the texts of pairs joined by commas, with nothing after the last pair
WellFormedTexts == {TextOf(sh) : sh \in {x \in Shapes : x.ws = NoSpacing /\ x.tail = <<>>}}

\* C7: load on a readable source whose read() returns a well-formed text
\* returns without an exception, having read the source once, and gives the
\* pairs parse yields for that text.
C7_LoadDelegates ==
    (call.fn = "load" /\ call.file.read /\ call.file.content \in WellFormedTexts)
        => (/\ pc = "returned"
            /\ err = NoError
            /\ reads = 1
            /\ yielded = ParseAll(call.file.content, 0, <<>>).pairs)

InvalidArgumentMessages ==
    {"expected a mapping object", "key_map must be callable", "value_map must be callable",
     "file must be writable"}

\* C8: a call of dump with a key_map or value_map that is not callable, or
\* a file without a write method, has raised the invalid-argument TypeError
\* and has written nothing to the sink.
C8_InvalidArgumentEager ==
    (/\ call.fn = "dump"
     /\ (call.key_map = "other" \/ call.value_map = "other" \/ ~call.file.write))
        => (/\ pc = "raised"
            /\ err.type = "TypeError"
            /\ err.msg \in InvalidArgumentMessages
            /\ sink = call.file.content)

\* the tails that put malformed content after the comma of the last pair
MalformedTails == {<<COMMA, "g">>, <<COMMA, "g", SP, "a", "=", ">", "a">>}

\* the offset after the k pairs of a shape and the comma that follows them
PrefixEnd(shape) ==
    IF shape.pairs = <<>> THEN 0 ELSE Len(JoinPairs(shape.pairs, NoSpacing)) + 1

\* C9: for a text of k valid pairs followed by malformed content, the
\* consumer never holds more than k pairs, the generator does not end
\* normally, and when it raises, the consumer holds exactly k pairs and the
\* exception is the malformed-input error at the end offset of the last pair
\* (0 when k = 0).
C9_LazyErrorOrdering ==
    (/\ call.fn = "parse" /\ call.from = Top
     /\ call.shape.ws = NoSpacing /\ call.shape.tail \in MalformedTails)
        => (/\ Len(yielded) <= Len(call.shape.pairs)
            /\ pc # "returned"
            /\ pc = "raised" => (/\ Len(yielded) = Len(call.shape.pairs)
                                 /\ err.type = "ValueError"
                                 /\ err.pos = PrefixEnd(call.shape)))

\* C10: when dump has raised the key-is-not-a-string or the
\* value-is-not-a-string TypeError, the sink holds exactly what it held
\* before the call.
C10_NoPartialOutput ==
    (/\ call.fn = "dump" /\ pc = "raised"
     /\ err.msg \in {"key is not a string", "value is not a string"})
        => sink = call.file.content

====
